---- MODULE Spec2Model ----
(***************************************************************************)
(* A model of redtape's decision pipeline (src/condition.go): the built-in *)
(* Conditions, evalPolicy / checkConditions and enforcer.Enforce.          *)
(*                                                                         *)
(* The Policy Manager, the Matcher and the Auditor are injected            *)
(* interfaces.  Their answers are inputs of the model: the list (or error) *)
(* FindByRequest returns is drawn in Init, and a pattern set is            *)
(* represented by the answer the injected Matcher gives for it against the *)
(* request ("hit", "miss" or "malformed", the last one making the Matcher  *)
(* return an error).                                                       *)
(***************************************************************************)
EXTENDS Integers, Sequences, FiniteSets, TLC

\* ------------------------------------------------------------------ bounds
MaxCandidates == 2
MaxNetworks == 2
MaxOptions == 3

\* ------------------------------------------------------------------ values
\* A metadata value (Go interface{}): nil, a bool or a string.
NilVal == [kind |-> "nil", b |-> FALSE, s |-> ""]
BoolVal(b) == [kind |-> "bool", b |-> b, s |-> ""]
StrVal(s) == [kind |-> "string", b |-> FALSE, s |-> s]

\* ------------------------------------------------- net.ParseIP / ParseCIDR
\* IPv4 dotted-decimal text only; an address is a tuple of four octets and
\* NoIP (the empty tuple) is Go's nil net.IP.
NoIP == <<>>

DigitChars == {"0", "1", "2", "3", "4", "5", "6", "7", "8", "9"}

DigitVal(ch) ==
  CASE ch = "0" -> 0 [] ch = "1" -> 1 [] ch = "2" -> 2 [] ch = "3" -> 3
    [] ch = "4" -> 4 [] ch = "5" -> 5 [] ch = "6" -> 6 [] ch = "7" -> 7
    [] ch = "8" -> 8 [] ch = "9" -> 9

CharAt(s, k) == SubSeq(s, k, k)

\* The fields of s between occurrences of sep, from position k on; start
\* is where the current field began.
RECURSIVE SplitFrom(_, _, _, _)
SplitFrom(s, sep, k, start) ==
  IF k > Len(s) THEN <<SubSeq(s, start, Len(s))>>
  ELSE IF CharAt(s, k) = sep
       THEN <<SubSeq(s, start, k - 1)>> \o SplitFrom(s, sep, k + 1, k + 1)
       ELSE SplitFrom(s, sep, k + 1, start)

Split(s, sep) == SplitFrom(s, sep, 1, 1)

\* A decimal number of one to three digits, -1 if s is not one.
RECURSIVE DecValue(_)
DecValue(s) ==
  IF Len(s) = 0 THEN 0
  ELSE DecValue(SubSeq(s, 1, Len(s) - 1)) * 10 + DigitVal(CharAt(s, Len(s)))

ParseDec(s) ==
  IF Len(s) \in 1..3 /\ \A k \in 1..Len(s) : CharAt(s, k) \in DigitChars
  THEN DecValue(s)
  ELSE -1

\* The one element of a singleton set.
Only(S) == CHOOSE x \in S : TRUE

ParseOctets(f) ==
  IF Len(f) = 4 /\ \A k \in 1..4 : ParseDec(f[k]) \in 0..255
  THEN [k \in 1..4 |-> ParseDec(f[k])]
  ELSE NoIP

ParseIP(s) == Only({ ParseOctets(f) : f \in {Split(s, ".")} })

\* net.ParseCIDR: [err, ip, bits]; ip is the network address as written
\* and bits the prefix length.  Contains masks both sides.
ParseNet(f) ==
  IF Len(f) = 2 /\ ParseIP(f[1]) # NoIP /\ ParseDec(f[2]) \in 0..32
  THEN [err |-> FALSE, ip |-> ParseIP(f[1]), bits |-> ParseDec(f[2])]
  ELSE [err |-> TRUE, ip |-> NoIP, bits |-> 0]

ParseCIDR(s) == Only({ ParseNet(f) : f \in {Split(s, "/")} })

Pow2(n) ==
  CASE n = 0 -> 1 [] n = 1 -> 2 [] n = 2 -> 4 [] n = 3 -> 8 [] n = 4 -> 16
    [] n = 5 -> 32 [] n = 6 -> 64 [] n = 7 -> 128 [] n = 8 -> 256

\* Number of mask bits that fall in octet k (1..4) of a prefix of length bits.
OctetBits(bits, k) ==
  LET rest == bits - 8 * (k - 1) IN
  IF rest <= 0 THEN 0 ELSE IF rest >= 8 THEN 8 ELSE rest

MaskOctet(o, n) == (o \div Pow2(8 - n)) * Pow2(8 - n)

\* (*net.IPNet).Contains
Contains(cidr, ip) ==
  \A k \in 1..4 :
    MaskOctet(ip[k], OctetBits(cidr.bits, k)) =
      MaskOctet(cidr.ip[k], OctetBits(cidr.bits, k))

\* -------------------------------------------------------------- conditions
\* A Condition value: its type name (Condition.Name) and its configuration.
BoolCondition(v) == [type |-> "bool", Value |-> v, Networks |-> <<>>]
RoleEqualsCondition == [type |-> "role_equals", Value |-> FALSE, Networks |-> <<>>]
IPWhitelistCondition(nets) ==
  [type |-> "ip_whitelist", Value |-> FALSE, Networks |-> nets]

\* BoolConditionMeets with "v, _ := val.(bool)": a value that is no bool
\* counts as false.
BoolConditionMeetsZeroValue(c, val, r) ==
  (IF val.kind = "bool" THEN val.b ELSE FALSE) = c.Value

\* (*BoolCondition).Meets
BoolConditionMeets(c, val, r) == val.kind = "bool" /\ val.b = c.Value

\* (*RoleEqualsCondition).Meets
RoleEqualsConditionMeets(c, val, r) == val.kind = "string" /\ val.s = r.Role

\* The loop of (*IPWhitelistCondition).Meets from network n on.
RECURSIVE IPWhitelistLoop(_, _, _)
IPWhitelistLoop(networks, ip, n) ==
  IF n > Len(networks) THEN FALSE
  ELSE \E cidr \in {ParseCIDR(networks[n])}, tip \in {ParseIP(ip)} :
         IF cidr.err THEN FALSE
         ELSE IF tip = NoIP THEN FALSE
         ELSE IF Contains(cidr, tip) THEN TRUE
         ELSE IPWhitelistLoop(networks, ip, n + 1)

\* (*IPWhitelistCondition).Meets
IPWhitelistConditionMeets(c, val, r) ==
  IF val.kind # "string" THEN FALSE
  ELSE IPWhitelistLoop(c.Networks, val.s, 1)

\* Condition.Meets, dispatched on the dynamic type.
Meets(c, val, r) ==
  CASE c.type = "bool" -> BoolConditionMeets(c, val, r)
    [] c.type = "role_equals" -> RoleEqualsConditionMeets(c, val, r)
    [] c.type = "ip_whitelist" -> IPWhitelistConditionMeets(c, val, r)

\* ----------------------------------------------------------------- request
\* Request metadata and Policy.Conditions are Go maps: sets of entries with
\* distinct keys.  Indexing a map with a missing key yields nil.
Lookup(meta, key) ==
  IF \E e \in meta : e.key = key
  THEN (CHOOSE e \in meta : e.key = key).val
  ELSE NilVal

RequestMetadataFromContext(ctx) == ctx

FullMeta ==
  { [key |-> "flag", val |-> BoolVal(TRUE)],
    [key |-> "who", val |-> StrVal("admin")],
    [key |-> "ip", val |-> StrVal("10.0.0.5")] }

NewRequest(meta) ==
  [Role |-> "admin", Action |-> "read", Resource |-> "doc1",
   Scope |-> "default", Context |-> meta]

Requests == { NewRequest(FullMeta), NewRequest({}) }

\* ------------------------------------------------------------------ errors
NoErr == <<>>
ErrFind == <<"FindByRequest", "store unavailable">>

\* ----------------------------------------------------------------- matcher
\* The injected Matcher.  A pattern set (or role pattern) is named by the
\* answer the Matcher gives for it against the request value.
PatternSets == {"hit", "miss", "malformed"}

\* The pattern set with no pattern in it.  What MatchPolicy answers for it
\* is the injected Matcher's choice: matcher tells whether e.matcher lets
\* the empty set match every value ("all") or none ("none").
EmptySet == "empty"
Matchers == {"all", "none"}

VARIABLE matcher

MatchPolicy(p, patterns, val) ==
  [ok |-> patterns = "hit" \/ (patterns = EmptySet /\ matcher = "all"),
   err |-> IF patterns = "malformed"
           THEN <<"MatchPolicy", p.id, val>> ELSE NoErr]

MatchRole(role, val) ==
  [ok |-> role = "hit",
   err |-> IF role = "malformed" THEN <<"MatchRole", role, val>> ELSE NoErr]

\* One record of the calls Enforce makes on its collaborators: the
\* operation, the candidate it was made for (0 before the loop), the
\* dimension, the role pattern index or condition key, and what it returned.
Call(op, dim, idx, key, ok, err) ==
  [op |-> op, cand |-> 0, dim |-> dim, idx |-> idx, key |-> key,
   ok |-> ok, err |-> err]

\* ------------------------------------------------------ building conditions
\* A value of an option bag (map[string]interface{}): a bool, a string or a
\* list of strings.
OptBool(b) == [kind |-> "bool", b |-> b, s |-> "", l |-> <<>>]
OptStr(s) == [kind |-> "string", b |-> FALSE, s |-> s, l |-> <<>>]
OptList(l) == [kind |-> "slice", b |-> FALSE, s |-> "", l |-> l]

\* A ConditionRegistry is known by the type names it registers; the nil
\* registry is a value of its own.
Registry(types) == [isNil |-> FALSE, types |-> types]
NilRegistry == [isNil |-> TRUE, types |-> {}]

\* NewConditionRegistry(): the three built-in types.
NewConditionRegistry ==
  Registry({ "bool", "role_equals", "ip_whitelist" })

\* cf(): the fresh Condition a registered factory returns.
NewCondition(type) ==
  CASE type = "bool" -> BoolCondition(FALSE)
    [] type = "role_equals" -> RoleEqualsCondition
    [] type = "ip_whitelist" -> IPWhitelistCondition(<<>>)

\* strings.EqualFold, as the decoder uses it to find a field's key.
UpperLetters == "ABCDEFGHIJKLMNOPQRSTUVWXYZ"
LowerLetters == "abcdefghijklmnopqrstuvwxyz"

LowerChar(ch) ==
  IF \E k \in 1..Len(UpperLetters) : CharAt(UpperLetters, k) = ch
  THEN CharAt(LowerLetters,
              CHOOSE k \in 1..Len(UpperLetters) : CharAt(UpperLetters, k) = ch)
  ELSE ch

EqualFold(a, b) ==
  /\ Len(a) = Len(b)
  /\ \A k \in 1..Len(a) : LowerChar(CharAt(a, k)) = LowerChar(CharAt(b, k))

\* The entries of the option bag the decoder may take for the struct field
\* named field: the one with exactly that key, else those equal to it but
\* for case.
FieldEntries(options, field) ==
  IF \E e \in options : e.key = field
  THEN { e \in options : e.key = field }
  ELSE { e \in options : EqualFold(e.key, field) }

ErrDecode(field, kind) == <<"Decode", field, kind>>

\* mapstructure.Decode(co.Options, &nc) with the entry e taken for the one
\* field of nc: a bool field takes a bool, a []string field a list; keys
\* that name no field are ignored.
DecodeField(nc, field, want, e) ==
  IF e.val.kind # want THEN [err |-> ErrDecode(field, e.val.kind), nc |-> nc]
  ELSE [err |-> NoErr,
        nc |-> IF field = "Value" THEN [nc EXCEPT !.Value = e.val.b]
               ELSE [nc EXCEPT !.Networks = e.val.l]]

\* The outcomes of mapstructure.Decode(co.Options, &nc).
Decode(options, nc) ==
  LET field == IF nc.type = "bool" THEN "Value" ELSE "Networks"
      want == IF nc.type = "bool" THEN "bool" ELSE "slice"
  IN IF nc.type = "role_equals" \/ FieldEntries(options, field) = {}
     THEN { [err |-> NoErr, nc |-> nc] }
     ELSE { DecodeField(nc, field, want, e) : e \in FieldEntries(options, field) }

\* cond[key] = nc
Put(cond, key, nc) ==
  { e \in cond : e.key # key } \cup { [key |-> key, cond |-> nc] }

\* What NewConditions returns: the map (nil or not) and the error.
BuildResult(isNil, cond, err) == [isNil |-> isNil, cond |-> cond, err |-> err]
NoBuildResult == BuildResult(TRUE, {}, <<"pending">>)

\* BuildOption storing the condition under co.Type.
BuildOptionKeyedByType(cond, co, reg) ==
  IF co.Type \notin reg.types THEN { [cond |-> cond, err |-> NoErr] }
  ELSE { IF d.err # NoErr THEN [cond |-> cond, err |-> d.err]
         ELSE [cond |-> Put(cond, co.Type, d.nc), err |-> NoErr] :
         d \in IF co.Options # {} THEN Decode(co.Options, NewCondition(co.Type))
               ELSE { [err |-> NoErr, nc |-> NewCondition(co.Type)] } }

\* BuildOption with "continue" in place of "return nil, err": an entry that
\* does not decode is left out.
BuildOptionSkipsFailure(cond, co, reg) ==
  IF co.Type \notin reg.types THEN { [cond |-> cond, err |-> NoErr] }
  ELSE { IF d.err # NoErr THEN [cond |-> cond, err |-> NoErr]
         ELSE [cond |-> Put(cond, co.Name, d.nc), err |-> NoErr] :
         d \in IF co.Options # {} THEN Decode(co.Options, NewCondition(co.Type))
               ELSE { [err |-> NoErr, nc |-> NewCondition(co.Type)] } }

\* One iteration of the loop of NewConditions, for the entry co: the map
\* after it and the error it returns with, for each outcome of the decoder.
BuildOption(cond, co, reg) ==
  IF co.Type \notin reg.types THEN { [cond |-> cond, err |-> NoErr] }
  ELSE { IF d.err # NoErr THEN [cond |-> cond, err |-> d.err]
         ELSE [cond |-> Put(cond, co.Name, d.nc), err |-> NoErr] :
         d \in IF co.Options # {} THEN Decode(co.Options, NewCondition(co.Type))
               ELSE { [err |-> NoErr, nc |-> NewCondition(co.Type)] } }

\* ---------------------------------------------------------------- policies
PolicyEffectAllow == "allow"
PolicyEffectDeny == "deny"
Effects == {PolicyEffectAllow, PolicyEffectDeny}

\* The orders in which a range over a map may visit its entries.
Orders(S) ==
  { o \in [1..Cardinality(S) -> S] :
      \A a, b \in 1..Cardinality(S) : a # b => o[a] # o[b] }

SomeOrder(S) == CHOOSE o \in Orders(S) : TRUE

\* What a stage of evalPolicy yields: the stage's calls, then the rest.
After(cs, rest) == [rest EXCEPT !.calls = cs \o @]

NoMatch(cs) == [match |-> FALSE, err |-> NoErr, calls |-> cs]
Fails(err, cs) == [match |-> FALSE, err |-> err, calls |-> cs]

\* checkConditionsFrom with "if pass { return true }" and "return false"
\* after the loop: one condition that is met is enough.
RECURSIVE checkConditionsAnyMet(_, _, _)
checkConditionsAnyMet(order, r, k) ==
  IF k > Len(order) THEN [pass |-> Len(order) = 0, calls |-> <<>>]
  ELSE LET meta == RequestMetadataFromContext(r.Context)
           pass == Meets(order[k].cond, Lookup(meta, order[k].key), r)
           c == Call("Meets", "condition", 0, order[k].key, pass, NoErr)
       IN IF pass THEN [pass |-> TRUE, calls |-> <<c>>]
          ELSE After(<<c>>, checkConditionsAnyMet(order, r, k + 1))

\* checkConditionsFrom with "return pass" in the loop body: the condition
\* visited first decides.
checkConditionsFirstOnly(order, r, k) ==
  IF k > Len(order) THEN [pass |-> TRUE, calls |-> <<>>]
  ELSE LET meta == RequestMetadataFromContext(r.Context)
           pass == Meets(order[k].cond, Lookup(meta, order[k].key), r)
       IN [pass |-> pass,
           calls |-> <<Call("Meets", "condition", 0, order[k].key, pass, NoErr)>>]

\* enforcer.checkConditions, visiting the entries in the given order, from
\* the k-th on.
RECURSIVE checkConditionsFrom(_, _, _)
checkConditionsFrom(order, r, k) ==
  IF k > Len(order) THEN [pass |-> TRUE, calls |-> <<>>]
  ELSE LET meta == RequestMetadataFromContext(r.Context)
           pass == Meets(order[k].cond, Lookup(meta, order[k].key), r)
           c == Call("Meets", "condition", 0, order[k].key, pass, NoErr)
       IN IF ~pass THEN [pass |-> FALSE, calls |-> <<c>>]
          ELSE After(<<c>>, checkConditionsFrom(order, r, k + 1))

checkConditions(order, r) == checkConditionsFrom(order, r, 1)

\* matchRoles without the "break": the patterns behind the first matching
\* one are tried too.
RECURSIVE matchRolesNoBreak(_, _, _)
matchRolesNoBreak(roles, r, j) ==
  IF j > Len(roles) THEN [rm |-> FALSE, err |-> NoErr, calls |-> <<>>]
  ELSE LET b == MatchRole(roles[j], r.Role)
           c == Call("MatchRole", "role", j, "", b.ok, b.err)
       IN IF b.err # NoErr THEN [rm |-> FALSE, err |-> b.err, calls |-> <<c>>]
          ELSE IF b.ok
          THEN [After(<<c>>, matchRolesNoBreak(roles, r, j + 1)) EXCEPT !.rm = TRUE]
          ELSE After(<<c>>, matchRolesNoBreak(roles, r, j + 1))

\* The role loop of evalPolicy from the j-th pattern on.
RECURSIVE matchRoles(_, _, _)
matchRoles(roles, r, j) ==
  IF j > Len(roles) THEN [rm |-> FALSE, err |-> NoErr, calls |-> <<>>]
  ELSE LET b == MatchRole(roles[j], r.Role)
           c == Call("MatchRole", "role", j, "", b.ok, b.err)
       IN IF b.err # NoErr THEN [rm |-> FALSE, err |-> b.err, calls |-> <<c>>]
          ELSE IF b.ok THEN [rm |-> TRUE, err |-> NoErr, calls |-> <<c>>]
          ELSE After(<<c>>, matchRoles(roles, r, j + 1))

\* evalConditions with "return false, errors.New(...)" when a condition is
\* not met.
evalConditionsFailureIsError(r, p, order) ==
  LET cc == checkConditions(order, r)
  IN IF cc.pass THEN [match |-> TRUE, err |-> NoErr, calls |-> cc.calls]
     ELSE Fails(<<"condition not met", p.id>>, cc.calls)

\* evalPolicy from "check all conditions" on.  order is the order in which
\* the range over p.Conditions() visits the map.
evalConditions(r, p, order) ==
  LET cc == checkConditions(order, r)
  IN [match |-> cc.pass, err |-> NoErr, calls |-> cc.calls]

\* evalScopes with the conditions checked before the scope answer is
\* looked at ("scm && e.checkConditions(p, r)" with the operands swapped).
evalScopesChecksConditionsFirst(r, p, order) ==
  LET scm == MatchPolicy(p, p.Scopes, r.Scope)
      cs == <<Call("MatchPolicy", "scope", 0, "", scm.ok, scm.err)>>
  IN IF scm.err # NoErr THEN Fails(scm.err, cs)
     ELSE [match |-> scm.ok /\ checkConditions(order, r).pass,
           err |-> NoErr,
           calls |-> cs \o checkConditions(order, r).calls]

\* evalPolicy from "match scopes" on.
evalScopes(r, p, order) ==
  LET scm == MatchPolicy(p, p.Scopes, r.Scope)
      cs == <<Call("MatchPolicy", "scope", 0, "", scm.ok, scm.err)>>
  IN IF scm.err # NoErr THEN Fails(scm.err, cs)
     ELSE IF ~scm.ok THEN NoMatch(cs)
     ELSE After(cs, evalConditions(r, p, order))

\* evalPolicy from "match resources" on.
evalResources(r, p, order) ==
  LET resm == MatchPolicy(p, p.Resources, r.Resource)
      cs == <<Call("MatchPolicy", "resource", 0, "", resm.ok, resm.err)>>
  IN IF resm.err # NoErr THEN Fails(resm.err, cs)
     ELSE IF ~resm.ok THEN NoMatch(cs)
     ELSE After(cs, evalScopes(r, p, order))

\* evalPolicy from "match roles" on.
evalRoles(r, p, order) ==
  LET rl == matchRoles(p.Roles, r, 1)
  IN IF rl.err # NoErr THEN Fails(rl.err, rl.calls)
     ELSE IF ~rl.rm THEN NoMatch(rl.calls)
     ELSE After(rl.calls, evalResources(r, p, order))

\* enforcer.evalPolicy: [match, err] and the calls it made.
evalPolicy(r, p, order) ==
  LET am == MatchPolicy(p, p.Actions, r.Action)
      cs == <<Call("MatchPolicy", "action", 0, "", am.ok, am.err)>>
  IN IF am.err # NoErr THEN Fails(am.err, cs)
     ELSE IF ~am.ok THEN NoMatch(cs)
     ELSE After(cs, evalRoles(r, p, order))

\* ------------------------------------------------------- the candidates
IdOf(k) == "p" \o ToString(k)

SeqsUpTo(S, n) == UNION { [1..m -> S] : m \in 0..n }

\* The condition maps a candidate may carry: none; two conditions, both met
\* by the full metadata; one met and one unmet; one whose key no request
\* supplies.
ConditionMaps ==
  { {},
    { [key |-> "who", cond |-> RoleEqualsCondition],
      [key |-> "ip", cond |-> IPWhitelistCondition(<<"10.0.0.0/24">>)] },
    { [key |-> "flag", cond |-> BoolCondition(TRUE)],
      [key |-> "ip", cond |-> IPWhitelistCondition(<<"192.168.0.0/16">>)] },
    { [key |-> "absent", cond |-> BoolCondition(TRUE)] } }

\* The role pattern lists a candidate may carry besides the single matching
\* pattern: none, no match, and a match or an error behind or before
\* another pattern.
RoleLists ==
  { <<>>, <<"miss">>, <<"miss", "hit">>, <<"miss", "malformed">>,
    <<"hit", "malformed">>, <<"malformed", "hit">> }

\* A policy every dimension of which matches, with no conditions.
BasePolicy(eff) ==
  [id |-> "", Effect |-> eff, Actions |-> "hit", Roles |-> <<"hit">>,
   Resources |-> "hit", Scopes |-> "hit", Conditions |-> {}]

\* The candidates: the base policy changed in at most one dimension.
PolicyPool ==
  UNION { { BasePolicy(eff) }
          \cup { [BasePolicy(eff) EXCEPT !.Actions = a] : a \in PatternSets }
          \cup { [BasePolicy(eff) EXCEPT !.Roles = rs] : rs \in RoleLists }
          \cup { [BasePolicy(eff) EXCEPT !.Resources = a] : a \in PatternSets }
          \cup { [BasePolicy(eff) EXCEPT !.Scopes = a] : a \in PatternSets }
          \cup { [BasePolicy(eff) EXCEPT !.Conditions = cm] : cm \in ConditionMaps }
        : eff \in Effects }

\* Policy identities are unique within a manager: the k-th is named IdOf(k).
WithIds(list) == [k \in 1..Len(list) |-> [list[k] EXCEPT !.id = IdOf(k)]]

\* What PolicyManager.FindByRequest may return: an error, or a list.
Managers ==
  { [err |-> ErrFind, pol |-> <<>>] }
  \cup { [err |-> NoErr, pol |-> WithIds(l)] :
           l \in SeqsUpTo(PolicyPool, MaxCandidates) }

\* ------------------------------------------------------------- the results
NoRet == [kind |-> "none", policy |-> "", err |-> NoErr]
Allowed == [kind |-> "nil", policy |-> "", err |-> NoErr]
NewErrRequestDeniedExplicit(id) == [kind |-> "explicit", policy |-> id, err |-> NoErr]
NewErrRequestDeniedImplicit == [kind |-> "implicit", policy |-> "", err |-> NoErr]
ErrRet(e) == [kind |-> "error", policy |-> "", err |-> e]

Tag(cs, i) == [n \in 1..Len(cs) |-> [cs[n] EXCEPT !.cand = i]]

\* LoopBody with "if p.Effect() == PolicyEffectDeny && !allow": a Deny that
\* follows a matching Allow no longer denies.
LoopBodyDenyAfterAllowIgnored(st, r, p, i, order) ==
  LET ev == evalPolicy(r, p, order)
      cs == st.calls \o Tag(ev.calls, i)
  IN
  IF ev.err # NoErr THEN [st EXCEPT !.ret = ErrRet(ev.err), !.calls = cs]
  ELSE IF ~ev.match THEN [st EXCEPT !.calls = cs]
  ELSE IF p.Effect = PolicyEffectDeny /\ ~st.allow
  THEN [st EXCEPT !.matched = Append(st.matched, p.id),
                  !.ret = NewErrRequestDeniedExplicit(p.id), !.calls = cs]
  ELSE [st EXCEPT !.matched = Append(st.matched, p.id),
                  !.allow = TRUE, !.calls = cs]

\* LoopBody with "allow = match" in place of "allow = true": a candidate
\* that does not match withdraws an earlier Allow.
LoopBodyLastDecides(st, r, p, i, order) ==
  LET ev == evalPolicy(r, p, order)
      cs == st.calls \o Tag(ev.calls, i)
  IN
  IF ev.err # NoErr THEN [st EXCEPT !.ret = ErrRet(ev.err), !.calls = cs]
  ELSE IF ~ev.match THEN [st EXCEPT !.allow = FALSE, !.calls = cs]
  ELSE IF p.Effect = PolicyEffectDeny
  THEN [st EXCEPT !.matched = Append(st.matched, p.id),
                  !.ret = NewErrRequestDeniedExplicit(p.id), !.calls = cs]
  ELSE [st EXCEPT !.matched = Append(st.matched, p.id),
                  !.allow = TRUE, !.calls = cs]

\* LoopBody with "return nil" on a matching Allow: the first match decides.
LoopBodyFirstMatchWins(st, r, p, i, order) ==
  LET ev == evalPolicy(r, p, order)
      cs == st.calls \o Tag(ev.calls, i)
  IN
  IF ev.err # NoErr THEN [st EXCEPT !.ret = ErrRet(ev.err), !.calls = cs]
  ELSE IF ~ev.match THEN [st EXCEPT !.calls = cs]
  ELSE IF p.Effect = PolicyEffectDeny
  THEN [st EXCEPT !.matched = Append(st.matched, p.id),
                  !.ret = NewErrRequestDeniedExplicit(p.id), !.calls = cs]
  ELSE [st EXCEPT !.matched = Append(st.matched, p.id),
                  !.allow = TRUE, !.ret = Allowed, !.calls = cs]

\* LoopBody with the explicit denial naming the first matched policy.
LoopBodyNamesFirstMatched(st, r, p, i, order) ==
  LET ev == evalPolicy(r, p, order)
      cs == st.calls \o Tag(ev.calls, i)
      ms == Append(st.matched, p.id)
  IN
  IF ev.err # NoErr THEN [st EXCEPT !.ret = ErrRet(ev.err), !.calls = cs]
  ELSE IF ~ev.match THEN [st EXCEPT !.calls = cs]
  ELSE IF p.Effect = PolicyEffectDeny
  THEN [st EXCEPT !.matched = ms,
                  !.ret = NewErrRequestDeniedExplicit(ms[1]), !.calls = cs]
  ELSE [st EXCEPT !.matched = ms, !.allow = TRUE, !.calls = cs]

\* LoopBody without the "if !match { continue }": the effect of a candidate
\* that does not match is applied too.
LoopBodyNoMatchNotSkipped(st, r, p, i, order) ==
  LET ev == evalPolicy(r, p, order)
      cs == st.calls \o Tag(ev.calls, i)
  IN
  IF ev.err # NoErr THEN [st EXCEPT !.ret = ErrRet(ev.err), !.calls = cs]
  ELSE IF p.Effect = PolicyEffectDeny
  THEN [st EXCEPT !.matched = Append(st.matched, p.id),
                  !.ret = NewErrRequestDeniedExplicit(p.id), !.calls = cs]
  ELSE [st EXCEPT !.matched = Append(st.matched, p.id),
                  !.allow = TRUE, !.calls = cs]

\* LoopBody with "if err != nil { continue }": a Matcher error skips the
\* candidate.
LoopBodySwallowsError(st, r, p, i, order) ==
  LET ev == evalPolicy(r, p, order)
      cs == st.calls \o Tag(ev.calls, i)
  IN
  IF ev.err # NoErr THEN [st EXCEPT !.calls = cs]
  ELSE IF ~ev.match THEN [st EXCEPT !.calls = cs]
  ELSE IF p.Effect = PolicyEffectDeny
  THEN [st EXCEPT !.matched = Append(st.matched, p.id),
                  !.ret = NewErrRequestDeniedExplicit(p.id), !.calls = cs]
  ELSE [st EXCEPT !.matched = Append(st.matched, p.id),
                  !.allow = TRUE, !.calls = cs]

\* One iteration of the loop of Enforce, for the i-th candidate p, on the
\* locals st = [allow, matched, ret, calls]; ret is set when the iteration
\* returns from Enforce.
LoopBody(st, r, p, i, order) ==
  LET ev == evalPolicy(r, p, order)
      cs == st.calls \o Tag(ev.calls, i)
  IN
  IF ev.err # NoErr THEN [st EXCEPT !.ret = ErrRet(ev.err), !.calls = cs]
  ELSE IF ~ev.match THEN [st EXCEPT !.calls = cs]
  ELSE IF p.Effect = PolicyEffectDeny
  THEN [st EXCEPT !.matched = Append(st.matched, p.id),
                  !.ret = NewErrRequestDeniedExplicit(p.id), !.calls = cs]
  ELSE [st EXCEPT !.matched = Append(st.matched, p.id),
                  !.allow = TRUE, !.calls = cs]

\* AfterLoop with "||" in place of "&&".
AfterLoopOr(allow, dflt) ==
  IF ~allow \/ dflt = PolicyEffectDeny
  THEN NewErrRequestDeniedImplicit
  ELSE Allowed

\* The statements of Enforce after the loop.
AfterLoop(allow, dflt) ==
  IF ~allow /\ dflt = PolicyEffectDeny
  THEN NewErrRequestDeniedImplicit
  ELSE Allowed

\* FindResult without the "if err != nil { return err }".
FindResultIgnoresError(mgr) ==
  [allow |-> FALSE, matched |-> <<>>, ret |-> NoRet,
   calls |-> <<Call("FindByRequest", "", 0, "", mgr.err = NoErr, mgr.err)>>]

\* The locals of Enforce when the manager has answered.
FindResult(mgr) ==
  [allow |-> FALSE, matched |-> <<>>,
   ret |-> IF mgr.err # NoErr THEN ErrRet(mgr.err) ELSE NoRet,
   calls |-> <<Call("FindByRequest", "", 0, "", mgr.err = NoErr, mgr.err)>>]

\* The loop of Enforce from the k-th candidate on.
RECURSIVE RunLoop(_, _, _, _)
RunLoop(st, r, list, k) ==
  IF st.ret # NoRet \/ k > Len(list) THEN st
  ELSE RunLoop(LoopBody(st, r, list[k], k, SomeOrder(list[k].Conditions)),
               r, list, k + 1)

\* enforcer.Enforce as a function of what its collaborators answer.
Enforce(r, mgr, dflt) ==
  LET st == RunLoop(FindResult(mgr), r, mgr.pol, 1)
  IN IF st.ret # NoRet THEN st.ret ELSE AfterLoop(st.allow, dflt)

\* ---------------------------------------------------------------- the state
VARIABLES
  r,                    \* the request of the Enforce call
  manager,              \* what FindByRequest answers for r
  DefaultPolicyEffect,  \* the process-wide default effect
  auditor,              \* enforcer.auditor: "nil" or "set"
  audited,              \* the outcomes handed to the Auditor; no statement
                        \* of Enforce uses e.auditor, so no action adds one
  pc,                   \* where the call stands: start, loop, done
  pol, i,               \* the candidates and the loop position
  allow, matched,       \* locals of Enforce
  ret,                  \* what Enforce returned
  calls,                \* the calls made on the collaborators
  mpc, mcond, mval, mret, \* a direct Condition.Meets call
  bpc, bopts, breg,     \* a NewConditions call: position and arguments
  bk, bcond, bseen,     \* its loop index, the map cond, the entries visited
  bret,                 \* what NewConditions returned
  callers               \* the locals of each of several concurrent Enforce calls

enforceVars ==
  <<r, manager, matcher, DefaultPolicyEffect, auditor, audited, pc, pol, i,
    allow, matched, ret, calls>>
\* What an Enforce call only reads, and the variables of the other calls.
givenVars == <<r, manager, matcher, DefaultPolicyEffect, auditor, audited>>
meetsVars == <<mpc, mcond, mval, mret>>
buildVars == <<bpc, bopts, breg, bk, bcond, bseen, bret>>
concVars == <<callers>>
otherVars == <<meetsVars, buildVars, concVars>>
vars == <<enforceVars, meetsVars, buildVars, concVars>>

NoMeets ==
  /\ mpc = "idle"
  /\ mcond = BoolCondition(FALSE)
  /\ mval = NilVal
  /\ mret = FALSE

\* No NewConditions call is under way.
NoBuild ==
  /\ bpc = "idle"
  /\ bopts = <<>>
  /\ breg = NilRegistry
  /\ bk = 0
  /\ bcond = {}
  /\ bseen = <<>>
  /\ bret = NoBuildResult

\* No concurrent callers.
NoCallers == callers = <<>>

\* The state at the entry of Enforce, but for the enforcer's auditor.
EnforceEntry ==
  /\ r = NewRequest(FullMeta)
  /\ manager \in Managers
  /\ matcher = "none"
  /\ DefaultPolicyEffect \in Effects
  /\ audited = <<>>
  /\ pc = "start"
  /\ pol = <<>>
  /\ i = 0
  /\ allow = FALSE
  /\ matched = <<>>
  /\ ret = NoRet
  /\ calls = <<>>
  /\ NoMeets
  /\ NoBuild
  /\ NoCallers

\* An enforcer built by NewDefaultEnforcer: no Auditor.
Init == EnforceEntry /\ auditor = "nil"

\* An enforcer built by NewEnforcer, with an Auditor or with nil.
InitAudit == EnforceEntry /\ auditor \in {"nil", "set"}

Locals == [allow |-> allow, matched |-> matched, ret |-> ret, calls |-> calls]

\* pol, err := e.manager.FindByRequest(r), and the return on an error.
FindByRequest ==
  /\ pc = "start"
  /\ LET st == FindResult(manager) IN
       /\ ret' = st.ret
       /\ calls' = st.calls
       /\ allow' = st.allow
       /\ matched' = st.matched
       /\ pol' = manager.pol
       /\ i' = 1
       /\ pc' = IF st.ret # NoRet THEN "done" ELSE "loop"
  /\ UNCHANGED <<givenVars, otherVars>>

\* One iteration of the loop over the candidates.
EvalCandidate ==
  /\ pc = "loop"
  /\ i <= Len(pol)
  /\ \E order \in Orders(pol[i].Conditions) :
       LET st == LoopBody(Locals, r, pol[i], i, order) IN
         /\ allow' = st.allow
         /\ matched' = st.matched
         /\ ret' = st.ret
         /\ calls' = st.calls
         /\ pc' = IF st.ret # NoRet THEN "done" ELSE "loop"
         /\ i' = IF st.ret # NoRet THEN i ELSE i + 1
  /\ UNCHANGED <<givenVars, pol, otherVars>>

\* The loop is over: the default effect decides.
Return ==
  /\ pc = "loop"
  /\ i > Len(pol)
  /\ ret' = AfterLoop(allow, DefaultPolicyEffect)
  /\ pc' = "done"
  /\ UNCHANGED <<givenVars, pol, i, allow, matched, calls, otherVars>>

\* One Enforce call: the manager is asked, the candidates are evaluated in
\* the order returned, and the call returns.
Next == FindByRequest \/ EvalCandidate \/ Return

Spec == Init /\ [][Next]_vars

SpecAudit == InitAudit /\ [][Next]_vars

\* ------------------------------------------- one candidate, any policy
\* Metadata in which the flag is the string "true", the role is another
\* one and the address lies outside the whitelisted network.
OtherMeta ==
  { [key |-> "flag", val |-> StrVal("true")],
    [key |-> "who", val |-> StrVal("guest")],
    [key |-> "ip", val |-> StrVal("10.0.1.5")] }

\* Metadata in which only the flag differs from the full metadata.
FlagOffMeta ==
  { [key |-> "flag", val |-> BoolVal(FALSE)],
    [key |-> "who", val |-> StrVal("admin")],
    [key |-> "ip", val |-> StrVal("10.0.0.5")] }

\* The full metadata without the address.
NoAddressMeta ==
  { [key |-> "flag", val |-> BoolVal(TRUE)],
    [key |-> "who", val |-> StrVal("admin")] }

PolicyRequests ==
  { NewRequest(FullMeta), NewRequest({}), NewRequest(OtherMeta),
    NewRequest(FlagOffMeta), NewRequest(NoAddressMeta) }

PolicyPatternSets == PatternSets \cup { EmptySet }

PolicyRoleLists == RoleLists \cup { <<"hit">> }

PolicyConditionMaps ==
  { {},
    { [key |-> "flag", cond |-> BoolCondition(TRUE)] },
    { [key |-> "flag", cond |-> BoolCondition(FALSE)] },
    { [key |-> "flag", cond |-> BoolCondition(TRUE)],
      [key |-> "who", cond |-> RoleEqualsCondition],
      [key |-> "ip", cond |-> IPWhitelistCondition(<<"10.0.0.0/24">>)] } }

\* Every policy over these pattern sets, role lists and condition maps.
PolicySpace ==
  [id : {""}, Effect : Effects, Actions : PolicyPatternSets,
   Roles : PolicyRoleLists, Resources : PolicyPatternSets,
   Scopes : PolicyPatternSets, Conditions : PolicyConditionMaps]

\* An Enforce call for which the manager returns one candidate.
InitPolicy ==
  /\ r \in PolicyRequests
  /\ manager \in { [err |-> NoErr, pol |-> WithIds(<<p>>)] : p \in PolicySpace }
  /\ matcher \in Matchers
  /\ DefaultPolicyEffect = PolicyEffectDeny
  /\ auditor = "nil"
  /\ audited = <<>>
  /\ pc = "start"
  /\ pol = <<>>
  /\ i = 0
  /\ allow = FALSE
  /\ matched = <<>>
  /\ ret = NoRet
  /\ calls = <<>>
  /\ NoMeets
  /\ NoBuild
  /\ NoCallers

SpecPolicy == InitPolicy /\ [][Next]_vars

\* ------------------------------------------------- a direct Meets call
CIDRStrings ==
  {"10.0.0.0/24", "10.0.0.0/8", "192.168.0.0/16", "10.0.0.0/33", "bad",
   "10.0.0.5"}
ValueStrings ==
  {"10.0.0.5", "10.0.1.5", "192.168.7.9", "10.0.0.256", "admin", "true", ""}

MeetsConditions ==
  { BoolCondition(TRUE), BoolCondition(FALSE), RoleEqualsCondition }
  \cup { IPWhitelistCondition(ns) : ns \in SeqsUpTo(CIDRStrings, MaxNetworks) }

MeetsValues ==
  { NilVal, BoolVal(TRUE), BoolVal(FALSE) }
  \cup { StrVal(s) : s \in ValueStrings }

NoEnforce ==
  /\ manager = [err |-> NoErr, pol |-> <<>>]
  /\ matcher = "none"
  /\ DefaultPolicyEffect = PolicyEffectDeny
  /\ auditor = "nil"
  /\ audited = <<>>
  /\ pc = "idle"
  /\ pol = <<>>
  /\ i = 0
  /\ allow = FALSE
  /\ matched = <<>>
  /\ ret = NoRet
  /\ calls = <<>>

InitMeets ==
  /\ r \in Requests
  /\ NoEnforce
  /\ mpc = "call"
  /\ mcond \in MeetsConditions
  /\ mval \in MeetsValues
  /\ mret = FALSE
  /\ NoBuild
  /\ NoCallers

\* cond.Meets(val, r)
CallMeets ==
  /\ mpc = "call"
  /\ mret' = Meets(mcond, mval, r)
  /\ mpc' = "returned"
  /\ UNCHANGED <<enforceVars, mcond, mval, buildVars, concVars>>

NextMeets == CallMeets

SpecMeets == InitMeets /\ [][NextMeets]_vars

\* ------------------------------------------------- a NewConditions call
\* The option entries a configuration may hold: Name and Type differ, the
\* same Type stands under several Names, a Type no registry knows, and two
\* option bags the decoder refuses.
OptionEntry(name, type, options) ==
  [Name |-> name, Type |-> type, Options |-> options]

OptionPool ==
  { OptionEntry("a", "bool", { [key |-> "value", val |-> OptBool(TRUE)] }),
    OptionEntry("b", "bool", {}),
    OptionEntry("a", "bool", { [key |-> "value", val |-> OptStr("true")] }),
    OptionEntry("a", "ip_whitelist",
                { [key |-> "networks", val |-> OptList(<<"10.0.0.0/24">>)] }),
    OptionEntry("b", "ip_whitelist",
                { [key |-> "networks", val |-> OptList(<<"10.0.0.0/8">>)],
                  [key |-> "comment", val |-> OptStr("office")] }),
    OptionEntry("a", "ip_whitelist",
                { [key |-> "Networks", val |-> OptStr("10.0.0.0/24")] }),
    OptionEntry("a", "geo", { [key |-> "value", val |-> OptStr("eu")] }),
    OptionEntry("b", "geo", {}),
    OptionEntry("b", "role_equals", { [key |-> "value", val |-> OptStr("x")] }) }

Registries == { NilRegistry, NewConditionRegistry, Registry({ "bool" }) }

InitBuild ==
  /\ r = NewRequest(FullMeta)
  /\ NoEnforce
  /\ NoMeets
  /\ NoCallers
  /\ bpc = "start"
  /\ bopts \in SeqsUpTo(OptionPool, MaxOptions)
  /\ breg \in Registries
  /\ bk = 0
  /\ bcond = {}
  /\ bseen = <<>>
  /\ bret = NoBuildResult

\* if reg == nil { reg = NewConditionRegistry() }; cond := make(...)
NewConditionsEntry ==
  /\ bpc = "start"
  /\ breg' = IF breg.isNil THEN NewConditionRegistry ELSE breg
  /\ bcond' = {}
  /\ bk' = 1
  /\ bpc' = "loop"
  /\ UNCHANGED <<enforceVars, meetsVars, concVars, bopts, bseen, bret>>

\* One iteration of "for _, co := range opts".
NewConditionsOption ==
  /\ bpc = "loop"
  /\ bk <= Len(bopts)
  /\ \E out \in BuildOption(bcond, bopts[bk], breg) :
       /\ bseen' = Append(bseen, bk)
       /\ IF out.err # NoErr
          THEN /\ bret' = BuildResult(TRUE, {}, out.err)
               /\ bpc' = "done"
               /\ UNCHANGED <<bcond, bk>>
          ELSE /\ bcond' = out.cond
               /\ bk' = bk + 1
               /\ UNCHANGED <<bret, bpc>>
  /\ UNCHANGED <<enforceVars, meetsVars, concVars, bopts, breg>>

\* return cond, nil
NewConditionsReturn ==
  /\ bpc = "loop"
  /\ bk > Len(bopts)
  /\ bret' = BuildResult(FALSE, bcond, NoErr)
  /\ bpc' = "done"
  /\ UNCHANGED <<enforceVars, meetsVars, concVars, bopts, breg, bk, bcond, bseen>>

NextBuild == NewConditionsEntry \/ NewConditionsOption \/ NewConditionsReturn

SpecBuild == InitBuild /\ [][NextBuild]_vars

\* ------------------------------------------- concurrent Enforce calls
\* The goroutines that call Enforce on one enforcer at the same time.
Callers == {"c1", "c2"}

\* Candidates whose conditions tell the two requests apart or fail in one
\* visiting order before the other, next to one that always matches, one
\* that never does and one the Matcher fails on.
ConcPool ==
  { [BasePolicy(PolicyEffectAllow) EXCEPT !.Conditions =
       { [key |-> "who", cond |-> RoleEqualsCondition],
         [key |-> "ip", cond |-> IPWhitelistCondition(<<"10.0.0.0/24">>)] }],
    [BasePolicy(PolicyEffectDeny) EXCEPT !.Conditions =
       { [key |-> "flag", cond |-> BoolCondition(TRUE)],
         [key |-> "ip", cond |-> IPWhitelistCondition(<<"192.168.0.0/16">>)] }],
    BasePolicy(PolicyEffectDeny),
    [BasePolicy(PolicyEffectAllow) EXCEPT !.Actions = "miss"],
    [BasePolicy(PolicyEffectAllow) EXCEPT !.Roles = <<"miss", "malformed">>] }

\* The locals of a call at the entry of Enforce.
EnforceCall(req) ==
  [r |-> req, pc |-> "start", pol |-> <<>>, i |-> 0, allow |-> FALSE,
   matched |-> <<>>, ret |-> NoRet, calls |-> <<>>]

InitConc ==
  /\ r = NewRequest(FullMeta)
  /\ manager \in
       { [err |-> ErrFind, pol |-> <<>>] }
       \cup { [err |-> NoErr, pol |-> WithIds(l)] :
                l \in SeqsUpTo(ConcPool, MaxCandidates) }
  /\ matcher = "none"
  /\ DefaultPolicyEffect \in Effects
  /\ auditor = "nil"
  /\ audited = <<>>
  /\ pc = "idle"
  /\ pol = <<>>
  /\ i = 0
  /\ allow = FALSE
  /\ matched = <<>>
  /\ ret = NoRet
  /\ calls = <<>>
  /\ NoMeets
  /\ NoBuild
  /\ callers \in [Callers -> { EnforceCall(req) : req \in Requests }]

CallerLocals(c) ==
  [allow |-> callers[c].allow, matched |-> callers[c].matched,
   ret |-> callers[c].ret, calls |-> callers[c].calls]

\* FindByRequest as caller c takes it.
CallerFindByRequest(c) ==
  /\ callers[c].pc = "start"
  /\ LET st == FindResult(manager) IN
       callers' =
         [callers EXCEPT ![c] =
            [@ EXCEPT !.ret = st.ret, !.calls = st.calls, !.allow = st.allow,
                      !.matched = st.matched, !.pol = manager.pol, !.i = 1,
                      !.pc = IF st.ret # NoRet THEN "done" ELSE "loop"]]
  /\ UNCHANGED <<enforceVars, meetsVars, buildVars>>

\* CallerEvalCandidate with allow kept in a field of the enforcer: every
\* caller reads and writes the same flag.
CallerEvalCandidateSharedAllow(c) ==
  /\ callers[c].pc = "loop"
  /\ callers[c].i <= Len(callers[c].pol)
  /\ \E order \in Orders(callers[c].pol[callers[c].i].Conditions) :
       LET shared == \E d \in Callers : callers[d].allow
           st == LoopBody([CallerLocals(c) EXCEPT !.allow = shared],
                          callers[c].r, callers[c].pol[callers[c].i],
                          callers[c].i, order)
       IN callers' =
            [d \in Callers |->
               IF d = c
               THEN [callers[c] EXCEPT
                       !.allow = st.allow, !.matched = st.matched,
                       !.ret = st.ret, !.calls = st.calls,
                       !.pc = IF st.ret # NoRet THEN "done" ELSE "loop",
                       !.i = IF st.ret # NoRet THEN @ ELSE @ + 1]
               ELSE [callers[d] EXCEPT !.allow = st.allow]]
  /\ UNCHANGED <<enforceVars, meetsVars, buildVars>>

\* One iteration of the loop as caller c takes it.
CallerEvalCandidate(c) ==
  /\ callers[c].pc = "loop"
  /\ callers[c].i <= Len(callers[c].pol)
  /\ \E order \in Orders(callers[c].pol[callers[c].i].Conditions) :
       LET st == LoopBody(CallerLocals(c), callers[c].r,
                          callers[c].pol[callers[c].i], callers[c].i, order)
       IN callers' =
            [callers EXCEPT ![c] =
               [@ EXCEPT !.allow = st.allow, !.matched = st.matched,
                         !.ret = st.ret, !.calls = st.calls,
                         !.pc = IF st.ret # NoRet THEN "done" ELSE "loop",
                         !.i = IF st.ret # NoRet THEN @ ELSE @ + 1]]
  /\ UNCHANGED <<enforceVars, meetsVars, buildVars>>

\* The statements after the loop as caller c takes them.
CallerReturn(c) ==
  /\ callers[c].pc = "loop"
  /\ callers[c].i > Len(callers[c].pol)
  /\ callers' =
       [callers EXCEPT ![c] =
          [@ EXCEPT !.ret = AfterLoop(callers[c].allow, DefaultPolicyEffect),
                    !.pc = "done"]]
  /\ UNCHANGED <<enforceVars, meetsVars, buildVars>>

\* Any caller takes its next step.
NextConc ==
  \E c \in Callers :
    CallerFindByRequest(c) \/ CallerEvalCandidate(c) \/ CallerReturn(c)

SpecConc == InitConc /\ [][NextConc]_vars

\* --------------------------------------------- an Enforce call that runs
\* An Enforce call over a few candidates, for either request.
InitFair ==
  /\ r \in Requests
  /\ manager \in
       { [err |-> ErrFind, pol |-> <<>>] }
       \cup { [err |-> NoErr, pol |-> WithIds(l)] :
                l \in SeqsUpTo(ConcPool, MaxCandidates) }
  /\ matcher = "none"
  /\ DefaultPolicyEffect \in Effects
  /\ auditor = "nil"
  /\ audited = <<>>
  /\ pc = "start"
  /\ pol = <<>>
  /\ i = 0
  /\ allow = FALSE
  /\ matched = <<>>
  /\ ret = NoRet
  /\ calls = <<>>
  /\ NoMeets
  /\ NoBuild
  /\ NoCallers

\* Enforce is straight-line code around a loop over a slice: every step is
\* taken as long as the collaborators it calls return.
SpecFair == InitFair /\ [][Next]_vars /\ WF_vars(Next)

\* ---------------------------------------------------- the claims' words
Done == pc = "done"

\* The policy matches the request: the Matcher confirms the action, one of
\* the role patterns (failing on none before it), the resource and the
\* scope, and every condition is met.
Matches(p) ==
  /\ MatchPolicy(p, p.Actions, r.Action).ok
  /\ \E j \in 1..Len(p.Roles) :
       /\ MatchRole(p.Roles[j], r.Role).ok
       /\ \A h \in 1..(j - 1) : MatchRole(p.Roles[h], r.Role).err = NoErr
  /\ MatchPolicy(p, p.Resources, r.Resource).ok
  /\ MatchPolicy(p, p.Scopes, r.Scope).ok
  /\ \A e \in p.Conditions : Meets(e.cond, Lookup(r.Context, e.key), r)

Candidates == manager.pol

MatchingDeny ==
  { k \in 1..Len(Candidates) :
      Matches(Candidates[k]) /\ Candidates[k].Effect = PolicyEffectDeny }

MatchingAllow ==
  { k \in 1..Len(Candidates) :
      Matches(Candidates[k]) /\ Candidates[k].Effect = PolicyEffectAllow }

Least(S) == CHOOSE k \in S : \A m \in S : k <= m

\* A Matcher call of this Enforce call returned an error.
MatcherErred ==
  \E n \in 1..Len(calls) : calls[n].op # "FindByRequest" /\ calls[n].err # NoErr

\* The candidates a Matcher or Condition call was made for.
Evaluated == { calls[n].cand : n \in 1..Len(calls) } \ {0}

\* Evaluating p on its own ends without a match and without an error.
Quiet(p) ==
  LET ev == evalPolicy(r, p, SomeOrder(p.Conditions))
  IN ~ev.match /\ ev.err = NoErr

\* Evaluating p on its own makes the Matcher return an error.
ErrsAlone(p) == evalPolicy(r, p, SomeOrder(p.Conditions)).err # NoErr

\* list without the positions in K.
RECURSIVE Without(_, _, _)
Without(list, K, k) ==
  IF k > Len(list) THEN <<>>
  ELSE (IF k \in K THEN <<>> ELSE <<list[k]>>) \o Without(list, K, k + 1)

Reorderings(list) ==
  { [k \in 1..Len(list) |-> list[o[k]]] : o \in Orders(1..Len(list)) }

Listed(list) == [err |-> NoErr, pol |-> list]

\* ------------------------------------------------------------------- C1
\* C1 as stated: whenever a matching candidate has effect Deny, Enforce
\* returns an explicit denial naming one of the matching Deny candidates.
C1_DenyAlwaysExplicit ==
  (Done /\ MatchingDeny # {}) =>
    /\ ret.kind = "explicit"
    /\ \E k \in MatchingDeny : ret.policy = Candidates[k].id

\* C1 amended: whenever a matching candidate has effect Deny, Enforce never
\* returns nil, whatever Allow candidates match and wherever they stand; it
\* returns an explicit denial naming one of the matching Deny candidates,
\* unless a Matcher call returned an error before, and then it returns that
\* error.
C1_DenyNeverAllowed ==
  (Done /\ MatchingDeny # {}) =>
    /\ ret # Allowed
    /\ ret.kind \in {"explicit", "error"}
    /\ ret.kind = "explicit" =>
         /\ ~MatcherErred
         /\ \E k \in MatchingDeny : ret.policy = Candidates[k].id
    /\ ret.kind = "error" =>
         /\ MatcherErred
         /\ ret.err = calls[Len(calls)].err
         /\ calls[Len(calls)].cand < Least(MatchingDeny)

\* A Deny denies although an Allow matched before it.
C1_Witness ==
  /\ Done
  /\ MatchingDeny # {}
  /\ MatchingAllow # {}
  /\ Least(MatchingAllow) < Least(MatchingDeny)
  /\ ret.kind = "explicit"

\* ------------------------------------------------------------------- C2
\* C2 as stated: an Allow candidate matches and no Deny candidate matches,
\* so Enforce returns nil.
C2_AllowAlwaysNil ==
  (Done /\ manager.err = NoErr /\ MatchingAllow # {} /\ MatchingDeny = {}) =>
    ret = Allowed

\* C2 amended: if an Allow candidate matches, no Deny candidate matches and
\* no Matcher call returns an error, Enforce returns nil, whatever the
\* default effect is.
C2_AllowNilUnlessError ==
  ( /\ Done
    /\ manager.err = NoErr
    /\ MatchingAllow # {}
    /\ MatchingDeny = {}
    /\ ~MatcherErred ) =>
    ret = Allowed

\* An Allow followed by a candidate that does not match permits under the
\* default effect Deny.
C2_Witness ==
  /\ Done
  /\ MatchingAllow # {}
  /\ MatchingDeny = {}
  /\ Len(Candidates) > Cardinality(MatchingAllow)
  /\ ~(Len(Candidates) \in MatchingAllow)
  /\ DefaultPolicyEffect = PolicyEffectDeny
  /\ ret = Allowed

\* ------------------------------------------------------------------- C3
\* The loop ran to its end: the manager answered, no Matcher call failed
\* and no matching candidate denies.
LoopCompleted == manager.err = NoErr /\ ~MatcherErred /\ MatchingDeny = {}

\* C3: when the loop completes without an explicit deny, the result is an
\* implicit denial with no policy identity exactly when no Allow candidate
\* matched and the default effect is Deny, and nil otherwise.
C3_AfterLoop ==
  (Done /\ LoopCompleted) =>
    ret = IF MatchingAllow = {} /\ DefaultPolicyEffect = PolicyEffectDeny
          THEN [kind |-> "implicit", policy |-> "", err |-> NoErr]
          ELSE [kind |-> "nil", policy |-> "", err |-> NoErr]

\* Candidates were evaluated, none matched, the default effect denies.
C3_Witness ==
  /\ Done
  /\ LoopCompleted
  /\ Len(Candidates) >= 1
  /\ MatchingAllow = {}
  /\ DefaultPolicyEffect = PolicyEffectDeny
  /\ ret.kind = "implicit"

\* ------------------------------------------------------------------- C4
\* C4: no call is made for a candidate behind the first matching Deny; an
\* explicit denial names the first matching Deny and every candidate up to
\* it was evaluated; a call that ends in nil or an implicit denial has
\* evaluated every candidate, so a matching Allow did not stop the loop.
C4_DenyShortCircuits ==
  LET denying == MatchingDeny IN
  /\ (calls # <<>> /\ denying # {}) =>
       calls[Len(calls)].cand <= Least(denying)
  /\ \A n \in 1..(Len(calls) - 1) : calls[n].cand <= calls[n + 1].cand
  /\ (Done /\ ret.kind = "explicit") =>
       /\ denying # {}
       /\ ret.policy = Candidates[Least(denying)].id
       /\ Evaluated = 1..Least(denying)
  /\ (Done /\ ret.kind \in {"nil", "implicit"}) =>
       Evaluated = 1..Len(Candidates)

\* The first matching Deny has a candidate behind it, which is not evaluated.
C4_Witness ==
  /\ Done
  /\ ret.kind = "explicit"
  /\ MatchingDeny # {}
  /\ Least(MatchingDeny) < Len(Candidates)
  /\ ~(Len(Candidates) \in Evaluated)

\* ------------------------------------------------------------------- C5
\* C5 as stated: the outcome kind is the same for every order of the
\* candidates, and so is the named policy when one Deny matches.
C5_OrderIrrelevant ==
  (Done /\ manager.err = NoErr) =>
    \A q \in Reorderings(Candidates) :
      LET e == Enforce(r, Listed(q), DefaultPolicyEffect) IN
        /\ e.kind = ret.kind
        /\ Cardinality(MatchingDeny) = 1 => e = ret

\* C5 amended: when no candidate makes the Matcher return an error, the
\* outcome kind is the same for every order of the candidates, and with one
\* matching Deny the explicit denial names it in every order.
C5_OrderIrrelevantUnlessError ==
  ( /\ Done
    /\ manager.err = NoErr
    /\ \A k \in 1..Len(Candidates) : ~ErrsAlone(Candidates[k]) ) =>
    \A q \in Reorderings(Candidates) :
      LET e == Enforce(r, Listed(q), DefaultPolicyEffect) IN
        /\ e.kind = ret.kind
        /\ Cardinality(MatchingDeny) = 1 => e = ret

\* The Allow P1 stands before the Deny P2, and the denial names P2.
C5_Witness ==
  /\ Done
  /\ \A k \in 1..Len(Candidates) : ~ErrsAlone(Candidates[k])
  /\ Cardinality(MatchingDeny) = 1
  /\ MatchingAllow # {}
  /\ Least(MatchingAllow) < Least(MatchingDeny)
  /\ ret = NewErrRequestDeniedExplicit(Candidates[Least(MatchingDeny)].id)

\* ------------------------------------------------------------------- C6
\* C6: once a MatchPolicy or MatchRole call has returned an error it is the
\* last call of this Enforce call, and Enforce has returned exactly that
\* error, also after an Allow candidate matched.
C6_MatcherErrorPropagates ==
  \A n \in 1..Len(calls) :
    (calls[n].op \in {"MatchPolicy", "MatchRole"} /\ calls[n].err # NoErr) =>
      /\ n = Len(calls)
      /\ Done
      /\ ret = [kind |-> "error", policy |-> "", err |-> calls[n].err]

\* The Matcher fails on a candidate behind a matching Allow.
C6_Witness ==
  /\ Done
  /\ MatcherErred
  /\ allow
  /\ MatchingAllow # {}
  /\ ret.kind = "error"

\* ------------------------------------------------------------------- C7
\* C7: when FindByRequest returns an error, no Matcher or Condition call is
\* ever made, no candidate is evaluated and Enforce returns that error.
C7_ManagerErrorPropagates ==
  manager.err # NoErr =>
    /\ \A n \in 1..Len(calls) : calls[n].op = "FindByRequest"
    /\ matched = <<>>
    /\ pc \in {"start", "done"}
    /\ Done => ret = [kind |-> "error", policy |-> "", err |-> manager.err]

\* The manager failed under the default effect Allow.
C7_Witness ==
  /\ Done
  /\ manager.err # NoErr
  /\ DefaultPolicyEffect = PolicyEffectAllow
  /\ ret.kind = "error"

\* ------------------------------------------------------------------- C8
\* C8 as stated: candidates that do not match the request can be taken out
\* of (added to) the list without changing what Enforce returns.
C8_ExtraCandidatesIrrelevant ==
  (Done /\ manager.err = NoErr) =>
    \A K \in SUBSET { k \in 1..Len(Candidates) : ~Matches(Candidates[k]) } :
      Enforce(r, Listed(Without(Candidates, K, 1)), DefaultPolicyEffect) = ret

\* C8 amended: candidates whose evaluation ends without a match and without
\* a Matcher error can be taken out of (added to) the list, at any positions
\* and in any number, without changing what Enforce returns.
C8_QuietCandidatesIrrelevant ==
  (Done /\ manager.err = NoErr) =>
    \A K \in SUBSET { k \in 1..Len(Candidates) : Quiet(Candidates[k]) } :
      Enforce(r, Listed(Without(Candidates, K, 1)), DefaultPolicyEffect) = ret

\* A candidate that does not match stands before a matching Deny.
C8_Witness ==
  /\ Done
  /\ ret.kind = "explicit"
  /\ \E k \in 1..Len(Candidates) :
       Quiet(Candidates[k]) /\ k < Least(MatchingDeny)

\* ------------------------------------------------------------------- C9
\* C9: with an Auditor configured, an Enforce call that reached a decision
\* has handed the Auditor its outcome.
C9_AuditorHandedOutcome ==
  (Done /\ auditor = "set" /\ ret.kind \in {"nil", "explicit", "implicit"}) =>
    Len(audited) = 1

\* ------------------------------------------------------------------ C10
\* The address val is contained in one of the well-formed networks.
Whitelisted(networks, val) ==
  /\ val.kind = "string"
  /\ ParseIP(val.s) # NoIP
  /\ \E n \in 1..Len(networks) :
       /\ ~ParseCIDR(networks[n]).err
       /\ Contains(ParseCIDR(networks[n]), ParseIP(val.s))

\* C10: IPWhitelistCondition.Meets returns true exactly when the value is a
\* string that parses as an IP address contained in at least one well-formed
\* configured network, a malformed network counting as no match for that
\* entry only.
C10_WhitelistMeets ==
  (mpc = "returned" /\ mcond.type = "ip_whitelist") =>
    (mret <=> Whitelisted(mcond.Networks, mval))

\* ------------------------------------------------------------------ C11
BuildDone == bpc = "done"

\* The types the registry in force registers.
Registered == IF breg.isNil THEN NewConditionRegistry.types ELSE breg.types

RegisteredEntries == { k \in 1..Len(bopts) : bopts[k].Type \in Registered }

\* The decoder refuses the option bag of the k-th entry.
DecodeFails(k) ==
  /\ k \in RegisteredEntries
  /\ bopts[k].Options # {}
  /\ \E d \in Decode(bopts[k].Options, NewCondition(bopts[k].Type)) :
       d.err # NoErr

\* C11: when no decode fails, NewConditions returns a map whose keys are
\* exactly the Names of the entries with a registered Type; an entry with an
\* unregistered Type leaves no key and raises no error, so a policy all of
\* whose conditions are of unregistered types carries no condition and
\* passes the condition stage; each key holds a condition of the Type of an
\* entry of that Name, and the last such entry decides.
C11_KeysAreRegisteredNames ==
  (BuildDone /\ \A k \in 1..Len(bopts) : ~DecodeFails(k)) =>
    /\ bret.err = NoErr
    /\ ~bret.isNil
    /\ { e.key : e \in bret.cond } = { bopts[k].Name : k \in RegisteredEntries }
    /\ Cardinality(bret.cond) =
         Cardinality({ bopts[k].Name : k \in RegisteredEntries })
    /\ \A k \in RegisteredEntries :
         (\A m \in RegisteredEntries : bopts[m].Name = bopts[k].Name => m <= k)
           => \E e \in bret.cond :
                e.key = bopts[k].Name /\ e.cond.type = bopts[k].Type
    /\ RegisteredEntries = {} =>
         /\ bret.cond = {}
         /\ \A order \in Orders(bret.cond) : checkConditions(order, r).pass

\* Two entries of one Type under different Names are both in the result,
\* and an entry of an unregistered Type stands between them.
C11_Witness ==
  /\ BuildDone
  /\ bret.err = NoErr
  /\ Cardinality(bret.cond) > 1
  /\ \A e \in bret.cond : e.cond.type = "bool"
  /\ \E k \in 1..Len(bopts) : bopts[k].Type \notin Registered

\* ------------------------------------------------------------------ C12
\* C12: if the decoder refuses the option bag of an entry with a registered
\* Type, NewConditions returns the decode error and the nil map, also when
\* entries were built before, and visits no entry behind the refused one.
C12_DecodeFailureAborts ==
  /\ (BuildDone /\ \E k \in 1..Len(bopts) : DecodeFails(k)) =>
       LET first == Least({ k \in 1..Len(bopts) : DecodeFails(k) }) IN
         /\ bret.err # NoErr
         /\ bret.err \in
              { d.err :
                  d \in Decode(bopts[first].Options, NewCondition(bopts[first].Type)) }
         /\ bret.isNil
         /\ bret.cond = {}
         /\ bseen = [n \in 1..first |-> n]
  /\ (BuildDone /\ bret.err # NoErr) => \E k \in 1..Len(bopts) : DecodeFails(k)
  /\ \A n \in 1..Len(bseen) : \A m \in 1..(bseen[n] - 1) : ~DecodeFails(m)

\* An entry was built, the next one is refused, and one more stands behind.
C12_Witness ==
  /\ BuildDone
  /\ bret.err # NoErr
  /\ bret.isNil
  /\ bcond # {}
  /\ Len(bseen) < Len(bopts)

\* ------------------------------------------------------------------ C13
\* The conditions of the only candidate that are bool conditions.
BoolEntries ==
  { e \in UNION { Candidates[k].Conditions : k \in 1..Len(Candidates) } :
      e.cond.type = "bool" }

\* The request supplies metadata under the key.
Supplies(key) == \E m \in r.Context : m.key = key

\* C13: a Meets call on a bool condition returns true exactly when the
\* metadata value under its key is a boolean equal to the configured Value:
\* false for the other boolean, for a string such as "true" and for no value
\* at all; a candidate with a bool condition whose key the request does not
\* supply does not match.
C13_BoolMeets ==
  /\ \A n \in 1..Len(calls) : \A e \in BoolEntries :
       (calls[n].op = "Meets" /\ calls[n].key = e.key) =>
         (calls[n].ok <=>
            \E m \in r.Context :
              /\ m.key = e.key
              /\ m.val \in { [kind |-> "bool", b |-> e.cond.Value, s |-> ""] })
  /\ (Done /\ \E e \in BoolEntries : ~Supplies(e.key)) =>
       /\ matched = <<>>
       /\ ret.kind \in {"implicit", "error"}

\* A candidate that wants the flag to be false meets a request without the
\* flag: the condition is asked and the candidate does not match.
C13_Witness ==
  /\ Done
  /\ \E e \in BoolEntries : ~e.cond.Value /\ ~Supplies(e.key)
  /\ \E n \in 1..Len(calls) : calls[n].op = "Meets" /\ ~calls[n].ok
  /\ ret.kind = "implicit"

\* ------------------------------------------------------------------ C14
\* What the call of caller c returns when no other call runs.
RunAlone(c) == Enforce(callers[c].r, manager, DefaultPolicyEffect)

\* What the calls share: the manager with its policies and conditions, the
\* Matcher, the default effect and the enforcer's auditor.
sharedVars == <<manager, matcher, DefaultPolicyEffect, auditor, audited>>

\* C14: under every interleaving of the steps of concurrent Enforce calls
\* each call returns what it returns when run alone, and no step writes what
\* the calls share or another call's request or locals.
C14_NoInterference ==
  /\ [](\A c \in Callers : callers[c].pc = "done" => callers[c].ret = RunAlone(c))
  /\ [][ /\ UNCHANGED sharedVars
         /\ \A c \in Callers : callers'[c].r = callers[c].r
         /\ Cardinality({ c \in Callers : callers'[c] # callers[c] }) <= 1 ]_vars

\* Both calls are inside their loops at once, one of them with an Allow
\* matched that the other, with the other request, did not match.
C14_Witness ==
  /\ \A c \in Callers : callers[c].pc = "loop" /\ callers[c].i > 1
  /\ \E c, d \in Callers :
       /\ callers[c].allow
       /\ ~callers[d].allow
       /\ callers[c].r # callers[d].r

\* ------------------------------------------------------------------ C15
\* C15: two Enforce calls with the same request, the same candidates in the
\* same order, the same default effect and the same Matcher return the same
\* outcome kind, the same named policy and the same error, whatever order
\* each of them visits the conditions of a policy in.
C15_Deterministic ==
  \A c, d \in Callers :
    ( /\ callers[c].pc = "done"
      /\ callers[d].pc = "done"
      /\ callers[c].r = callers[d].r ) =>
      /\ callers[c].ret.kind = callers[d].ret.kind
      /\ callers[c].ret.policy = callers[d].ret.policy
      /\ callers[c].ret.err = callers[d].ret.err

\* Two calls with the same request visited the conditions of a candidate in
\* different orders, so made different Meets calls, and were both allowed.
C15_Witness ==
  \E c, d \in Callers :
    /\ callers[c].pc = "done"
    /\ callers[d].pc = "done"
    /\ callers[c].r = callers[d].r
    /\ callers[c].calls # callers[d].calls
    /\ callers[c].ret = Allowed
    /\ callers[d].ret = Allowed

\* ------------------------------------------------------------------ C16
\* The place of a dimension in the order of the checks.
Rank(dim) ==
  CASE dim = "" -> 0
    [] dim = "action" -> 1
    [] dim = "role" -> 2
    [] dim = "resource" -> 3
    [] dim = "scope" -> 4
    [] dim = "condition" -> 5

CallsOn(dim) == { n \in 1..Len(calls) : calls[n].dim = dim }

\* Some call on the dimension answered "matches".
Passed(dim) == \E n \in CallsOn(dim) : calls[n].ok /\ calls[n].err = NoErr

\* C16: the calls made for a candidate come in the order action, role,
\* resource, scope, conditions, at most one MatchPolicy call per dimension;
\* a call on a dimension is made only if every earlier dimension passed;
\* a MatchPolicy or Meets call that answers "no match", and a role list no
\* pattern of which matches, is followed by no call on a later dimension,
\* and the candidate then counts as not matched; Meets is called only when
\* action, role, resource and scope all matched.
C16_FixedOrderShortCircuit ==
  /\ \A n \in 1..(Len(calls) - 1) : Rank(calls[n].dim) <= Rank(calls[n + 1].dim)
  /\ \A dim \in {"action", "resource", "scope"} : Cardinality(CallsOn(dim)) <= 1
  /\ \A n \in 1..Len(calls) :
       /\ \A dim \in {"action", "role", "resource", "scope"} :
            Rank(dim) < Rank(calls[n].dim) => Passed(dim)
       /\ (~calls[n].ok /\ calls[n].dim # "role") => n = Len(calls)
       /\ ~calls[n].ok =>
            \A m \in 1..Len(calls) :
              Rank(calls[m].dim) <= Rank(calls[n].dim) \/ Passed(calls[n].dim)
  /\ ( /\ Done
       /\ \A n \in 1..Len(calls) : calls[n].err = NoErr
       /\ \/ ~Passed("role")
          \/ \E n \in 1..Len(calls) : calls[n].dim # "role" /\ ~calls[n].ok ) =>
       matched = <<>> /\ ret = NewErrRequestDeniedImplicit

\* The scope of a candidate with conditions does not match: the scope call
\* is the last one, no Meets call is made, the candidate does not match.
C16_Witness ==
  /\ Done
  /\ Len(Candidates) = 1
  /\ Candidates[1].Conditions # {}
  /\ CallsOn("scope") # {}
  /\ ~Passed("scope")
  /\ CallsOn("condition") = {}
  /\ ret = NewErrRequestDeniedImplicit

\* ------------------------------------------------------------------ C17
\* The role patterns of the candidate, and what the Matcher answers for the
\* j-th of them.
RolePatterns == Candidates[1].Roles

RoleAnswer(j) == MatchRole(RolePatterns[j], r.Role)

\* The role check was reached, and it passed: the resource check follows.
RoleCheckReached == Done /\ Passed("action")
RoleCheckPasses == CallsOn("resource") # {}

\* C17 as stated: the role check passes exactly when at least one of the
\* role patterns matches the request role.
C17_RoleCheckIsOr ==
  RoleCheckReached =>
    (RoleCheckPasses <=> \E j \in 1..Len(RolePatterns) : RoleAnswer(j).ok)

\* The patterns up to the first one the Matcher does not answer "no match"
\* for: those MatchRole is called with.
RoleTried ==
  { j \in 1..Len(RolePatterns) :
      \A h \in 1..(j - 1) : ~RoleAnswer(h).ok /\ RoleAnswer(h).err = NoErr }

\* C17 amended: the role check passes exactly when a role pattern matches
\* the request role and MatchRole returns no error for a pattern before the
\* first matching one (such an error ends the evaluation with that error);
\* the patterns are tried in order with one MatchRole call each, no call is
\* made for a pattern behind the first matching one, and if no pattern
\* matches the policy is skipped.
C17_RoleCheckIsOrUnlessError ==
  RoleCheckReached =>
    /\ RoleCheckPasses <=> \E j \in RoleTried : RoleAnswer(j).ok
    /\ Cardinality(CallsOn("role")) = Cardinality(RoleTried)
    /\ \A n \in CallsOn("role") :
         /\ calls[n].op = "MatchRole"
         /\ calls[n].idx = Cardinality({ m \in CallsOn("role") : m <= n })
         /\ calls[n].ok = RoleAnswer(calls[n].idx).ok
         /\ calls[n].err = RoleAnswer(calls[n].idx).err
         /\ calls[n].ok => \A m \in CallsOn("role") : m <= n
         /\ calls[n].err # NoErr => n = Len(calls) /\ ret = ErrRet(calls[n].err)
    /\ (\A j \in 1..Len(RolePatterns) : RoleAnswer(j) = [ok |-> FALSE, err |-> NoErr])
         => /\ ~RoleCheckPasses
            /\ matched = <<>>
            /\ ret = NewErrRequestDeniedImplicit

\* The first pattern does not match and the second does: two MatchRole
\* calls, and the check passes.
C17_Witness ==
  /\ RoleCheckReached
  /\ Len(RolePatterns) > 1
  /\ ~RoleAnswer(1).ok
  /\ RoleAnswer(Len(RolePatterns)).ok
  /\ Cardinality(CallsOn("role")) = Len(RolePatterns)
  /\ RoleCheckPasses

\* ------------------------------------------------------------------ C18
\* The conditions of the candidate, and the one under a key.
PolicyConditions == Candidates[1].Conditions

ConditionAt(key) == (CHOOSE e \in PolicyConditions : e.key = key).cond

\* The condition stage was reached, and it passed: the policy matched.
ConditionStageReached == Done /\ Passed("scope")
ConditionStagePasses == matched = <<Candidates[1].id>>

\* The metadata value the request holds under the key, nil if it holds none.
MetaValue(key) ==
  IF Supplies(key)
  THEN (CHOOSE m \in r.Context : m.key = key).val
  ELSE [kind |-> "nil", b |-> FALSE, s |-> ""]

\* C18: the condition stage passes exactly when every condition of the
\* policy returns true from Meets for the metadata value under its key, a
\* missing key giving the nil value and no error; each Meets call is made
\* for a condition of the policy, once, with that value; a call returning
\* false is the last one and the policy does not match; with no conditions
\* no call is made and the stage passes.
C18_ConditionsAreAnd ==
  ConditionStageReached =>
    /\ ConditionStagePasses <=>
         \A e \in PolicyConditions : Meets(e.cond, MetaValue(e.key), r)
    /\ \A n \in CallsOn("condition") :
         /\ calls[n].op = "Meets"
         /\ calls[n].err = NoErr
         /\ \E e \in PolicyConditions : e.key = calls[n].key
         /\ calls[n].ok = Meets(ConditionAt(calls[n].key), MetaValue(calls[n].key), r)
         /\ \A m \in CallsOn("condition") : calls[m].key = calls[n].key => m = n
         /\ ~calls[n].ok => n = Len(calls) /\ ~ConditionStagePasses
    /\ ConditionStagePasses =>
         { calls[n].key : n \in CallsOn("condition") } =
           { e.key : e \in PolicyConditions }
    /\ PolicyConditions = {} => ConditionStagePasses /\ CallsOn("condition") = {}
    /\ ret.kind # "error"

\* Three conditions, two of them met before the third, whose key the request
\* lacks, is asked and fails: the policy does not match and no error arises.
C18_Witness ==
  /\ ConditionStageReached
  /\ \E e \in PolicyConditions : ~Supplies(e.key)
  /\ Cardinality(PolicyConditions) > 2
  /\ Cardinality(CallsOn("condition")) = Cardinality(PolicyConditions)
  /\ \E n \in CallsOn("condition") : ~calls[n].ok
  /\ ~ConditionStagePasses
  /\ ret = NewErrRequestDeniedImplicit

\* ------------------------------------------------------------------ C19
\* The pattern set of the candidate on a MatchPolicy dimension.
PatternsOn(dim) ==
  CASE dim = "action" -> Candidates[1].Actions
    [] dim = "resource" -> Candidates[1].Resources
    [] dim = "scope" -> Candidates[1].Scopes

\* The check of the dimension is reached: the dimensions before it passed.
Reached(dim) ==
  /\ Done
  /\ \A d \in {"action", "role", "resource", "scope"} :
       Rank(d) < Rank(dim) => Passed(d)

\* What the injected Matcher answers for an empty pattern set.
EmptyMatches == matcher = "all"

\* The evaluation went on behind the dimension: the policy is asked about
\* a later dimension, or it matched.
WentOn(dim) ==
  \/ \E n \in 1..Len(calls) : Rank(calls[n].dim) > Rank(dim)
  \/ matched # <<>>

\* The Enforcer follows the Matcher's answer for the empty pattern set of
\* the dimension: it goes on exactly when the answer is "matches" (behind
\* the action check there is nothing to see of it when the policy has no
\* role patterns).
FollowsAnswer(dim) ==
  /\ WentOn(dim) => EmptyMatches
  /\ EmptyMatches => WentOn(dim) \/ (dim = "action" /\ RolePatterns = <<>>)

\* C19 as stated: for a dimension whose pattern set is empty the Enforcer
\* consults the Matcher and follows its answer, for the role dimension as
\* for the other three.
C19_MatcherDecidesEmpty ==
  /\ \A dim \in {"action", "resource", "scope"} :
       (Reached(dim) /\ PatternsOn(dim) = EmptySet) =>
         /\ CallsOn(dim) # {}
         /\ FollowsAnswer(dim)
  /\ (Reached("role") /\ RolePatterns = <<>>) =>
       /\ CallsOn("role") # {}
       /\ WentOn("role") <=> EmptyMatches

\* ------------------------------------------------------------------ C20
\* The four outcomes, told apart by what the returned value carries.
IsAllowed == ret.kind = "nil" /\ ret.policy = "" /\ ret.err = NoErr

IsExplicitDenial ==
  /\ ret.kind = "explicit"
  /\ ret.err = NoErr
  /\ \E k \in 1..Len(Candidates) : ret.policy = Candidates[k].id

IsImplicitDenial == ret.kind = "implicit" /\ ret.policy = "" /\ ret.err = NoErr

IsInfrastructureError ==
  /\ ret.kind = "error"
  /\ ret.policy = ""
  /\ ret.err # NoErr
  /\ \/ ret.err = manager.err
     \/ \E n \in 1..Len(calls) :
          calls[n].op \in {"MatchPolicy", "MatchRole"} /\ calls[n].err = ret.err

\* The evaluations begun for candidate k: each begins with the action call.
Begun(k) == { n \in CallsOn("action") : calls[n].cand = k }

\* What holds at every step of an Enforce call: the candidates are taken in
\* the order of the list, each at most once; no Meets call returns an error;
\* there is no outcome before the call is done, and then exactly one of the
\* four, an error only from the Policy Manager or the Matcher.
EnforceTotal ==
  /\ \A n \in 1..(Len(calls) - 1) : calls[n].cand <= calls[n + 1].cand
  /\ \A k \in 1..Len(Candidates) : Cardinality(Begun(k)) <= 1
  /\ \E m \in 0..Len(Candidates) : Evaluated = 1..m
  /\ \A n \in 1..Len(calls) : calls[n].op = "Meets" => calls[n].err = NoErr
  /\ ~Done => ret = [kind |-> "none", policy |-> "", err |-> NoErr]
  /\ Done =>
       Cardinality({ o \in {"allowed", "explicit", "implicit", "error"} :
                       \/ o = "allowed" /\ IsAllowed
                       \/ o = "explicit" /\ IsExplicitDenial
                       \/ o = "implicit" /\ IsImplicitDenial
                       \/ o = "error" /\ IsInfrastructureError }) = 1

\* C20: every Enforce call over a finite candidate list terminates, having
\* evaluated each candidate at most once in the order of the list, in
\* exactly one of the four outcomes allowed, explicit denial with a policy
\* identity, implicit denial without one, or an error of the Policy Manager
\* or the Matcher; a condition evaluation yields match or no match, never
\* an error.
C20_TerminatesInOneOutcome == <>Done /\ []EnforceTotal

\* Every candidate of a list of several was evaluated, a condition was not
\* met on the way, and the call ended in a decision.
C20_Witness ==
  /\ Done
  /\ Len(Candidates) > 1
  /\ Evaluated = 1..Len(Candidates)
  /\ \E n \in 1..Len(calls) : calls[n].op = "Meets" /\ ~calls[n].ok
  /\ IsAllowed \/ IsImplicitDenial

====
